---- MODULE Spec2Model ----
(***************************************************************************)
(* The User CRUD service: the gin handlers of UserController, the          *)
(* userService they call, and the users collection the service works on.   *)
(* One action per handler; a handler runs to completion within its request. *)
(***************************************************************************)
EXTENDS Naturals, Sequences, FiniteSets, TLC

VARIABLES store, before, req, ret, resp

vars == <<store, before, req, ret, resp>>

(***************************************************************************)
(* Go values.  A pointer field is nil or points to one value.              *)
(***************************************************************************)
Nil == {}
Ptr(v) == {v}
Deref(p) == CHOOSE v \in p : TRUE

\* type User struct: six pointer fields.
User(id, name, dob, address, description, createdAt) ==
    [ID |-> id, Name |-> name, Dob |-> dob, Address |-> address,
     Description |-> description, CreatedAt |-> createdAt]

\* An error value: its message and the sentinel errors.Is finds in its chain.
NoErr == [msg |-> "", is |-> "nil", arg |-> <<>>]
NewErr(msg, sentinel) == [msg |-> msg, is |-> sentinel, arg |-> <<>>]
ErrNoDocuments == NewErr("mongo: no documents in result", "ErrNoDocuments")
ErrInvalidHex == NewErr("the provided hex string is not a valid ObjectID", "ErrInvalidHex")
ErrStore == NewErr("store failure", "StoreError")
ErrCanceled == NewErr("context canceled", "context.Canceled")
ErrDuplicateKey == NewErr("E11000 duplicate key error", "StoreError")
ErrImmutableId == NewErr("the _id field is immutable", "StoreError")

\* fmt.Errorf(msg + ": %w", err): a new message, the same chain.
Wrapf(msg, err) == [msg |-> msg, is |-> err.is, arg |-> <<>>]
\* fmt.Errorf(msg, id, err) with %s of the id and %w of the error.
WrapfId(msg, id, err) == [msg |-> msg, is |-> err.is, arg |-> id]
\* fmt.Errorf(msg): no %w, the chain is cut.  arg is the %v argument, if any.
Errorf(msg, arg) == [msg |-> msg, is |-> "opaque", arg |-> arg]
ErrorsIs(err, target) == err.is = target.is

(***************************************************************************)
(* ObjectIDs and their hex form.  An ObjectID is modelled by one byte (two *)
(* hex digits) where the driver has twelve (twenty-four digits).           *)
(***************************************************************************)
HexLower == <<"0", "1", "2", "3", "4", "5", "6", "7", "8", "9", "a", "b", "c", "d", "e", "f">>
HexUpper == <<"0", "1", "2", "3", "4", "5", "6", "7", "8", "9", "A", "B", "C", "D", "E", "F">>
IsHexChar(c) == \E i \in DOMAIN HexLower : HexLower[i] = c \/ HexUpper[i] = c
HexVal(c) == (CHOOSE i \in DOMAIN HexLower : HexLower[i] = c \/ HexUpper[i] = c) - 1

\* primitive.ObjectID.Hex: lower-case digits.
Hex(oid) == <<HexLower[(oid \div Len(HexLower)) + 1], HexLower[(oid % Len(HexLower)) + 1]>>

\* primitive.ObjectIDFromHex: the length is checked, then the digits decoded,
\* upper and lower case alike.
ObjectIDFromHex(s) ==
    IF Len(s) = Len(Hex(0)) /\ \A i \in DOMAIN s : IsHexChar(s[i])
    THEN [oid |-> HexVal(s[1]) * Len(HexLower) + HexVal(s[2]), err |-> NoErr]
    ELSE [oid |-> 0, err |-> ErrInvalidHex]

(***************************************************************************)
(* time.Now().UTC().Format(time.RFC3339): the instant to whole seconds.    *)
(***************************************************************************)
Instants == {[sec |-> 1, nsec |-> 500], [sec |-> 2, nsec |-> 0]}
RFC3339Text == <<"1970-01-01T00:00:01Z", "1970-01-01T00:00:02Z">>
FormatRFC3339(t) == RFC3339Text[t.sec]

(***************************************************************************)
(* BSON.  Every field of User is omitempty: a nil pointer leaves the key   *)
(* out of the document, and a key that is missing decodes to nil.          *)
(***************************************************************************)
BsonKeys == {"_id", "name", "dob", "address", "description", "createdAt"}

BsonMarshal(user) ==
    [k \in BsonKeys |->
        CASE k = "_id" -> user.ID
          [] k = "name" -> user.Name
          [] k = "dob" -> user.Dob
          [] k = "address" -> user.Address
          [] k = "description" -> user.Description
          [] k = "createdAt" -> user.CreatedAt]

BsonUnmarshal(doc) ==
    User(doc["_id"], doc["name"], doc["dob"], doc["address"],
         doc["description"], doc["createdAt"])

(***************************************************************************)
(* The users collection: a set of documents, looked up by _id alone.       *)
(* outcome is what happens to the round trip: it completes ("ok"), fails   *)
(* ("error": timeout, connection loss, a rejected command) or is abandoned *)
(* because the context passed in was cancelled ("canceled").  A round trip *)
(* that does not complete leaves the collection as it was.                 *)
(***************************************************************************)
Outcomes == {"ok", "error", "canceled"}
OutcomeErr(outcome) == IF outcome = "canceled" THEN ErrCanceled ELSE ErrStore

Matching(st, oid) == {d \in st : d["_id"] = Ptr(oid)}
Live(st) == {Deref(d["_id"]) : d \in st}
NoDocument == [k \in BsonKeys |-> Nil]

\* coll.FindOne(ctx, {_id: oid}).Decode(&user)
FindOne(st, oid, outcome) ==
    IF outcome # "ok" THEN [doc |-> NoDocument, err |-> OutcomeErr(outcome)]
    ELSE IF Matching(st, oid) = {} THEN [doc |-> NoDocument, err |-> ErrNoDocuments]
    ELSE [doc |-> CHOOSE d \in Matching(st, oid) : TRUE, err |-> NoErr]

\* coll.InsertOne(ctx, user): a document without _id gets newId, the
\* ObjectID the driver generates; a duplicate _id is rejected.
InsertOne(st, doc, newId, outcome) ==
    LET d == IF doc["_id"] = Nil THEN [doc EXCEPT !["_id"] = Ptr(newId)] ELSE doc
    IN  IF outcome # "ok" THEN [st |-> st, InsertedID |-> Nil, err |-> OutcomeErr(outcome)]
        ELSE IF Matching(st, Deref(d["_id"])) # {}
        THEN [st |-> st, InsertedID |-> Nil, err |-> ErrDuplicateKey]
        ELSE [st |-> st \cup {d}, InsertedID |-> d["_id"], err |-> NoErr]

\* Variant of ApplySet: the update replaces the document, as an update
\* without $set does, so a key the update lacks is lost.
ApplyReplace(doc, set) == [k \in BsonKeys |-> IF k = "_id" THEN doc[k] ELSE set[k]]

\* The $set of one document: the keys of the update replace the stored
\* ones, the rest persist.
ApplySet(doc, set) == [k \in BsonKeys |-> IF set[k] # Nil THEN set[k] ELSE doc[k]]

\* coll.UpdateByID(ctx, oid, {$set: user}); a $set that would change _id is
\* rejected by the store.
UpdateByID(st, oid, set, outcome) ==
    IF outcome # "ok" THEN [st |-> st, MatchedCount |-> 0, err |-> OutcomeErr(outcome)]
    ELSE IF Matching(st, oid) = {} THEN [st |-> st, MatchedCount |-> 0, err |-> NoErr]
    ELSE IF set["_id"] # Nil /\ set["_id"] # Ptr(oid)
    THEN [st |-> st, MatchedCount |-> 0, err |-> ErrImmutableId]
    ELSE LET m == CHOOSE d \in Matching(st, oid) : TRUE
         IN  [st |-> (st \ {m}) \cup {ApplySet(m, set)}, MatchedCount |-> 1, err |-> NoErr]

\* coll.DeleteOne(ctx, {_id: oid}): one match goes, none is no error.
DeleteOne(st, oid, outcome) ==
    IF outcome # "ok" THEN [st |-> st, err |-> OutcomeErr(outcome)]
    ELSE IF Matching(st, oid) = {} THEN [st |-> st, err |-> NoErr]
    ELSE [st |-> st \ {CHOOSE d \in Matching(st, oid) : TRUE}, err |-> NoErr]

(***************************************************************************)
(* userService.  Each operation returns what the Go method returns, and    *)
(* the collection as the call leaves it.                                   *)
(***************************************************************************)
get(st, id, outcome) ==
    LET p == ObjectIDFromHex(id)
        r == FindOne(st, p.oid, outcome)
    IN  IF p.err # NoErr THEN [user |-> Nil, err |-> Wrapf("invalid user ID", p.err)]
        ELSE IF r.err # NoErr
        THEN IF ErrorsIs(r.err, ErrNoDocuments) THEN [user |-> Nil, err |-> r.err]
             ELSE [user |-> Nil, err |-> Wrapf("failed to find User", r.err)]
        ELSE [user |-> Ptr(BsonUnmarshal(r.doc)), err |-> NoErr]

\* Variant of create: a CreatedAt the caller set is kept.
createKeepsCallerStamp(st, user, now, newId, outcome) ==
    LET stamped == IF user.CreatedAt = Nil
                   THEN [user EXCEPT !.CreatedAt = Ptr(FormatRFC3339(now))] ELSE user
        res == InsertOne(st, BsonMarshal(stamped), newId, outcome)
    IN  IF res.err # NoErr THEN [st |-> res.st, user |-> stamped, err |-> res.err]
        ELSE [st |-> res.st, user |-> [stamped EXCEPT !.ID = res.InsertedID], err |-> NoErr]

\* Variant of create: the inserted id is not written back into the User.
createForgetsID(st, user, now, newId, outcome) ==
    LET stamped == [user EXCEPT !.CreatedAt = Ptr(FormatRFC3339(now))]
        res == InsertOne(st, BsonMarshal(stamped), newId, outcome)
    IN  [st |-> res.st, user |-> stamped, err |-> res.err]

\* user is the *User the caller holds: create writes CreatedAt and ID into it.
create(st, user, now, newId, outcome) ==
    LET stamped == [user EXCEPT !.CreatedAt = Ptr(FormatRFC3339(now))]
        res == InsertOne(st, BsonMarshal(stamped), newId, outcome)
    IN  IF res.err # NoErr THEN [st |-> res.st, user |-> stamped, err |-> res.err]
        ELSE [st |-> res.st, user |-> [stamped EXCEPT !.ID = res.InsertedID], err |-> NoErr]

\* Variant of update: no match is reported as an error.
updateNoMatchIsError(st, id, user, outcome) ==
    LET p == ObjectIDFromHex(id)
        res == UpdateByID(st, p.oid, BsonMarshal(user), outcome)
    IN  IF p.err # NoErr
        THEN [st |-> st, user |-> Nil, err |-> Wrapf("failed to parse user ID", p.err)]
        ELSE IF res.err # NoErr
        THEN [st |-> res.st, user |-> Nil, err |-> WrapfId("failed to modify user with id", id, res.err)]
        ELSE IF res.MatchedCount < 1 THEN [st |-> res.st, user |-> Nil, err |-> ErrNoDocuments]
        ELSE [st |-> res.st, user |-> Ptr(user), err |-> NoErr]

\* Variant of update: the merged document is fetched and returned.
updateReturnsMerged(st, id, user, outcome) ==
    LET p == ObjectIDFromHex(id)
        res == UpdateByID(st, p.oid, BsonMarshal(user), outcome)
    IN  IF p.err # NoErr
        THEN [st |-> st, user |-> Nil, err |-> Wrapf("failed to parse user ID", p.err)]
        ELSE IF res.err # NoErr
        THEN [st |-> res.st, user |-> Nil, err |-> WrapfId("failed to modify user with id", id, res.err)]
        ELSE IF res.MatchedCount < 1 THEN [st |-> res.st, user |-> Nil, err |-> NoErr]
        ELSE [st |-> res.st, user |-> Ptr(BsonUnmarshal(FindOne(res.st, p.oid, "ok").doc)),
              err |-> NoErr]

update(st, id, user, outcome) ==
    LET p == ObjectIDFromHex(id)
        res == UpdateByID(st, p.oid, BsonMarshal(user), outcome)
    IN  IF p.err # NoErr
        THEN [st |-> st, user |-> Nil, err |-> Wrapf("failed to parse user ID", p.err)]
        ELSE IF res.err # NoErr
        THEN [st |-> res.st, user |-> Nil, err |-> WrapfId("failed to modify user with id", id, res.err)]
        ELSE IF res.MatchedCount < 1 THEN [st |-> res.st, user |-> Nil, err |-> NoErr]
        ELSE [st |-> res.st, user |-> Ptr(user), err |-> NoErr]

\* Variant of delete: a delete that removes nothing is an error.
deleteNoMatchIsError(st, id, outcome) ==
    LET p == ObjectIDFromHex(id)
        res == DeleteOne(st, p.oid, outcome)
    IN  IF p.err # NoErr THEN [st |-> st, err |-> Errorf("invalid user ID", <<>>)]
        ELSE IF res.err # NoErr
        THEN [st |-> res.st, err |-> WrapfId("failed to delete user with id", id, res.err)]
        ELSE IF res.st = st THEN [st |-> res.st, err |-> ErrNoDocuments]
        ELSE [st |-> res.st, err |-> NoErr]

delete(st, id, outcome) ==
    LET p == ObjectIDFromHex(id)
        res == DeleteOne(st, p.oid, outcome)
    IN  IF p.err # NoErr THEN [st |-> st, err |-> Errorf("invalid user ID", <<>>)]
        ELSE IF res.err # NoErr
        THEN [st |-> res.st, err |-> WrapfId("failed to delete user with id", id, res.err)]
        ELSE [st |-> res.st, err |-> NoErr]

(***************************************************************************)
(* JSON.  A request body is a JSON object (each key missing, null, a       *)
(* string or a number) or text that is no JSON object.  A response body is *)
(* nothing, the literal null, or an object with its omitempty keys.        *)
(***************************************************************************)
JsonKeys == {"id", "name", "dob", "address", "description", "createdAt"}
JsonNull == "<null>"
JsonNumber == "<number>"

JsonObject(id, name, dob, address, description, createdAt) ==
    [k \in JsonKeys |->
        CASE k = "id" -> id
          [] k = "name" -> name
          [] k = "dob" -> dob
          [] k = "address" -> address
          [] k = "description" -> description
          [] k = "createdAt" -> createdAt]

EmptyObject == JsonObject(Nil, Nil, Nil, Nil, Nil, Nil)
NoBody == [kind |-> "none", obj |-> EmptyObject]
NullBody == [kind |-> "null", obj |-> EmptyObject]

\* json.Marshal of a *User: null for nil, else the non-nil fields, the id in hex.
JsonMarshal(user) ==
    IF user = Nil THEN NullBody
    ELSE LET u == Deref(user)
         IN  [kind |-> "object",
              obj |-> JsonObject(IF u.ID = Nil THEN Nil ELSE Ptr(Hex(Deref(u.ID))),
                                 u.Name, u.Dob, u.Address, u.Description, u.CreatedAt)]

\* Decoding one key into a *string: missing and null leave nil.
JsonString(v) == IF v = Nil \/ v = Ptr(JsonNull) THEN Nil ELSE v
JsonTypeError(v) == v = Ptr(JsonNumber)

\* The payload struct of both handlers: four *string fields, other keys ignored.
PayloadKeys == {"name", "dob", "address", "description"}
DecodePayload(body) ==
    [Name |-> JsonString(body.obj["name"]), Dob |-> JsonString(body.obj["dob"]),
     Address |-> JsonString(body.obj["address"]),
     Description |-> JsonString(body.obj["description"]),
     err |-> ~body.json \/ \E k \in PayloadKeys : JsonTypeError(body.obj[k])]

\* Variant of BindCreate: Dob has lost its binding:"required" tag.
BindCreateDobOptional(body) ==
    LET p == DecodePayload(body)
    IN  [p EXCEPT !.err = p.err \/ p.Name = Nil \/ p.Address = Nil]

\* c.ShouldBindJSON(&payload) of CreateUser: binding:"required" on Name, Dob, Address.
BindCreate(body) ==
    LET p == DecodePayload(body)
    IN  [p EXCEPT !.err = p.err \/ p.Name = Nil \/ p.Dob = Nil \/ p.Address = Nil]

\* c.ShouldBindJSON(&payload) of UpdateUser: no binding tags.
BindUpdate(body) == DecodePayload(body)

(***************************************************************************)
(* gin.Context: what the handler leaves in the response.                   *)
(***************************************************************************)
AbortWithStatus(code) == [status |-> code, body |-> NoBody, err |-> NoErr, written |-> TRUE]
AbortWithError(code, err) == [status |-> code, body |-> NoBody, err |-> err, written |-> TRUE]
JSON(code, user) == [status |-> code, body |-> JsonMarshal(user), err |-> NoErr, written |-> TRUE]
Status(code) == [status |-> code, body |-> NoBody, err |-> NoErr, written |-> TRUE]

StatusOK == 200
StatusCreated == 201
StatusAccepted == 202
StatusNoContent == 204
StatusBadRequest == 400
StatusInternalServerError == 500

(***************************************************************************)
(* The requests the model sends.                                           *)
(***************************************************************************)
MaxDocs == 2

\* The ObjectIDs the driver may generate.
Oids == {10, 11, 12}

\* The :id path parameter: the hex of two generated ids, one of them in
\* upper case too, and one that does not parse.
IdParams == {<<"0", "a">>, <<"0", "A">>, <<"0", "b">>, <<"0", "g">>}

NotJson == [json |-> FALSE, obj |-> EmptyObject]
Body(obj) == [json |-> TRUE, obj |-> obj]

PostBodies ==
    {Body(JsonObject(Nil, Ptr("a"), Ptr("a"), Ptr("a"), Ptr("a"), Nil)),
     Body(JsonObject(Ptr(<<"0", "b">>), Ptr(""), Ptr("a"), Ptr("a"), Nil, Ptr("yesterday"))),
     Body(JsonObject(Nil, Nil, Ptr("a"), Ptr("a"), Ptr("a"), Nil)),
     Body(JsonObject(Nil, Ptr("a"), Ptr(JsonNull), Ptr("a"), Nil, Nil)),
     Body(JsonObject(Nil, Ptr("a"), Ptr("a"), Nil, Nil, Nil)),
     Body(JsonObject(Nil, Ptr("a"), Ptr("a"), Ptr("a"), Ptr(JsonNumber), Nil)),
     NotJson}

PutBodies ==
    {Body(JsonObject(Nil, Ptr("b"), Nil, Nil, Ptr(JsonNull), Nil)),
     Body(JsonObject(Ptr(<<"0", "b">>), Nil, Nil, Nil, Nil, Ptr("yesterday"))),
     Body(JsonObject(Nil, Nil, Ptr(JsonNumber), Nil, Nil, Nil)),
     NotJson}

NoInstant == [sec |-> 0, nsec |-> 0]
NoUser == User(Nil, Nil, Nil, Nil, Nil, Nil)

\* The request a step served: the handler's method ("get", "create",
\* "update", "delete" for a call of the service itself), the :id parameter,
\* the body, the User handed to the service, what became of the store round
\* trip ("unused" when there was none) and the instant create read.
Request(method, id, body, user, outcome, now) ==
    [method |-> method, id |-> id, body |-> body, user |-> user,
     outcome |-> outcome, now |-> now]
\* What the service call of the request returned; op is "" when the handler
\* returned before calling the service.
Returned(op, user, err) == [op |-> op, user |-> user, err |-> err]

\* before is the collection as the last request found it.
Init ==
    /\ store = {}
    /\ before = {}
    /\ req = Request("", <<>>, NotJson, NoUser, "unused", NoInstant)
    /\ ret = Returned("", Nil, NoErr)
    /\ resp = [status |-> 0, body |-> NoBody, err |-> NoErr, written |-> FALSE]

\* Whether the service call reaches the store: the id parses.
Reaches(id) == ObjectIDFromHex(id).err = NoErr
Used(id, outcome) == IF Reaches(id) THEN outcome ELSE "unused"

(***************************************************************************)
(* UserController.                                                         *)
(***************************************************************************)
\* Variant of GetUserResponse: NotFound is not told apart.
GetUserResponseNo204(r) == JSON(StatusOK, r.user)

GetUserResponse(r) ==
    IF r.err # NoErr /\ ErrorsIs(r.err, ErrNoDocuments)
    THEN AbortWithStatus(StatusNoContent)
    ELSE JSON(StatusOK, r.user)

GetUser ==
    \E id \in IdParams, outcome \in Outcomes :
        LET r == get(store, id, outcome)
        IN  /\ Reaches(id) \/ outcome = "ok"
            /\ req' = Request("GET", id, NotJson, NoUser, Used(id, outcome), NoInstant)
            /\ ret' = Returned("get", r.user, r.err)
            /\ resp' = GetUserResponse(r)
            /\ before' = store
            /\ UNCHANGED store

CreateUserResponse(r) ==
    IF r.err # NoErr THEN AbortWithError(StatusInternalServerError, r.err)
    ELSE JSON(StatusCreated, Ptr(r.user))

\* The User a handler builds from its bound payload.
PayloadUser(payload) ==
    User(Nil, payload.Name, payload.Dob, payload.Address, payload.Description, Nil)

CreateUser ==
    \E body \in PostBodies, outcome \in Outcomes, now \in Instants, newId \in Oids \ Live(store) :
        LET payload == BindCreate(body)
            r == create(store, PayloadUser(payload), now, newId, outcome)
        IN  IF payload.err
            THEN /\ outcome = "ok"
                 /\ now = CHOOSE t \in Instants : TRUE
                 /\ newId = CHOOSE o \in Oids \ Live(store) : TRUE
                 /\ req' = Request("POST", <<>>, body, NoUser, "unused", NoInstant)
                 /\ ret' = Returned("", Nil, NoErr)
                 /\ resp' = AbortWithError(StatusBadRequest, Errorf("invalid new user request", <<>>))
                 /\ before' = store
                 /\ UNCHANGED store
            ELSE /\ r.err = NoErr => Cardinality(store) < MaxDocs
                 /\ r.err # NoErr => newId = CHOOSE o \in Oids \ Live(store) : TRUE
                 /\ req' = Request("POST", <<>>, body, PayloadUser(payload), outcome, now)
                 /\ ret' = Returned("create", Ptr(r.user), r.err)
                 /\ resp' = CreateUserResponse(r)
                 /\ before' = store
                 /\ store' = r.st

UpdateUserResponse(r, id) ==
    IF r.err # NoErr THEN AbortWithError(StatusInternalServerError, r.err)
    ELSE IF r.user = Nil
    THEN AbortWithError(StatusBadRequest, Errorf("user with id %v not found", id))
    ELSE JSON(StatusAccepted, r.user)

UpdateUser ==
    \E id \in IdParams, body \in PutBodies, outcome \in Outcomes :
        LET payload == BindUpdate(body)
            r == update(store, id, PayloadUser(payload), outcome)
        IN  IF payload.err
            THEN /\ outcome = "ok"
                 /\ req' = Request("PUT", id, body, NoUser, "unused", NoInstant)
                 /\ ret' = Returned("", Nil, NoErr)
                 /\ resp' = AbortWithError(StatusBadRequest, Errorf("invalid update user request", <<>>))
                 /\ before' = store
                 /\ UNCHANGED store
            ELSE /\ Reaches(id) \/ outcome = "ok"
                 /\ req' = Request("PUT", id, body, PayloadUser(payload), Used(id, outcome), NoInstant)
                 /\ ret' = Returned("update", r.user, r.err)
                 /\ resp' = UpdateUserResponse(r, id)
                 /\ before' = store
                 /\ store' = r.st

DeleteUserResponse(r) ==
    IF r.err # NoErr THEN AbortWithError(StatusInternalServerError, r.err)
    ELSE Status(StatusOK)

DeleteUser ==
    \E id \in IdParams, outcome \in Outcomes :
        LET r == delete(store, id, outcome)
        IN  /\ Reaches(id) \/ outcome = "ok"
            /\ req' = Request("DELETE", id, NotJson, NoUser, Used(id, outcome), NoInstant)
            /\ ret' = Returned("delete", Nil, r.err)
            /\ resp' = DeleteUserResponse(r)
            /\ before' = store
            /\ store' = r.st

Next == GetUser \/ CreateUser \/ UpdateUser \/ DeleteUser

Spec == Init /\ [][Next]_vars

(***************************************************************************)
(* The service called on its own, as any holder of a UserService may call  *)
(* it: the Users the handlers build, and Users whose ID and CreatedAt the  *)
(* caller has set.                                                         *)
(***************************************************************************)
CreateArgs ==
    {User(Nil, Ptr("a"), Ptr("a"), Ptr("a"), Nil, Nil),
     User(Nil, Ptr("a"), Ptr("a"), Ptr("a"), Ptr("a"), Ptr("yesterday")),
     User(Ptr(10), Ptr("a"), Ptr("a"), Ptr("a"), Nil, Nil)}

UpdateArgs ==
    {User(Nil, Ptr("b"), Nil, Nil, Nil, Nil),
     User(Nil, Nil, Nil, Nil, Nil, Ptr("yesterday")),
     User(Ptr(11), Nil, Nil, Nil, Ptr("b"), Nil)}

ServiceGet ==
    \E id \in IdParams, outcome \in Outcomes :
        LET r == get(store, id, outcome)
        IN  /\ Reaches(id) \/ outcome = "ok"
            /\ req' = Request("get", id, NotJson, NoUser, Used(id, outcome), NoInstant)
            /\ ret' = Returned("get", r.user, r.err)
            /\ before' = store
            /\ UNCHANGED <<store, resp>>

ServiceCreate ==
    \E user \in CreateArgs, outcome \in Outcomes, now \in Instants, newId \in Oids \ Live(store) :
        LET r == create(store, user, now, newId, outcome)
        IN  /\ r.err = NoErr => Cardinality(store) < MaxDocs
            /\ r.err # NoErr => newId = CHOOSE o \in Oids \ Live(store) : TRUE
            /\ req' = Request("create", <<>>, NotJson, user, outcome, now)
            /\ ret' = Returned("create", Ptr(r.user), r.err)
            /\ before' = store
            /\ store' = r.st
            /\ UNCHANGED resp

ServiceUpdate ==
    \E id \in IdParams, user \in UpdateArgs, outcome \in Outcomes :
        LET r == update(store, id, user, outcome)
        IN  /\ Reaches(id) \/ outcome = "ok"
            /\ req' = Request("update", id, NotJson, user, Used(id, outcome), NoInstant)
            /\ ret' = Returned("update", r.user, r.err)
            /\ before' = store
            /\ store' = r.st
            /\ UNCHANGED resp

ServiceDelete ==
    \E id \in IdParams, outcome \in Outcomes :
        LET r == delete(store, id, outcome)
        IN  /\ Reaches(id) \/ outcome = "ok"
            /\ req' = Request("delete", id, NotJson, NoUser, Used(id, outcome), NoInstant)
            /\ ret' = Returned("delete", Nil, r.err)
            /\ before' = store
            /\ store' = r.st
            /\ UNCHANGED resp

ServiceNext == ServiceGet \/ ServiceCreate \/ ServiceUpdate \/ ServiceDelete

ServiceSpec == Init /\ [][ServiceNext]_vars

(***************************************************************************)
(* Vocabulary of the properties.                                           *)
(***************************************************************************)
\* A key of a request body that carries a value: neither missing nor null.
Present(v) == v # Nil /\ v # Ptr(JsonNull)
Submitted(body, k) == IF Present(body.obj[k]) THEN body.obj[k] ELSE Nil
\* The body is a JSON object whose payload keys hold strings or nothing.
Decodes(body) == body.json /\ \A k \in PayloadKeys : body.obj[k] # Ptr(JsonNumber)
RequiredKeys == {"name", "dob", "address"}
WellFormed(id) == ObjectIDFromHex(id).err = NoErr
\* The documents of a collection that the :id parameter names.
DocsOf(st, id) == IF WellFormed(id) THEN Matching(st, ObjectIDFromHex(id).oid) ELSE {}
StoreFailed == req.outcome \in {"error", "canceled"}
Handled == req.method \in {"GET", "POST", "PUT", "DELETE"}
ServiceFailed == ret.op # "" /\ ret.err # NoErr
Stamps == {Ptr(RFC3339Text[i]) : i \in DOMAIN RFC3339Text}

\* C1: in each of the four handlers a service error that is not NotFound is
\* answered with status 500; GET never answers one with a 2xx status.
C1_ServiceErrorIs500 ==
    (Handled /\ ServiceFailed /\ ~ErrorsIs(ret.err, ErrNoDocuments))
        => resp.status = StatusInternalServerError

\* create stamps created-at with the instant it reads, whatever the caller
\* put in the User, and stores the stamped document.
CreateStamps ==
    (ret.op = "create" /\ ret.err = NoErr) =>
        /\ Deref(ret.user).CreatedAt = Ptr(RFC3339Text[req.now.sec])
        /\ \E d \in store \ before :
            /\ store = before \cup {d}
            /\ d["createdAt"] = Ptr(RFC3339Text[req.now.sec])
\* No document that stays in the collection changes its created-at.
CreatedAtKept ==
    \A d \in before, e \in store : d["_id"] = e["_id"] => d["createdAt"] = e["createdAt"]

\* C2 as stated: created-at is set once, by create, from the current time
\* and over any caller value; no update, for any partialUser, and no other
\* operation changes the stored created-at of a document.
C2_CreatedAtNeverChanges == CreateStamps /\ CreatedAtKept

\* C2 amended: created-at is set by create, from the current time and over
\* any caller value; no operation changes it afterwards, except an update
\* whose partialUser itself carries a created-at.
C2_CreatedAtSetOnce ==
    /\ CreateStamps
    /\ (ret.op = "update" /\ req.user.CreatedAt # Nil) \/ CreatedAtKept

C2_Witness ==
    /\ ret.op = "update" /\ ret.err = NoErr /\ ret.user # Nil
    /\ req.user.CreatedAt = Nil /\ req.user.Name # Nil
    /\ \E d \in DocsOf(store, req.id) : d["createdAt"] \in Stamps /\ d["name"] = req.user.Name
    /\ \E d \in store : d["createdAt"] = Ptr("yesterday")

\* C3: the identifier is assigned once, by the store, at creation: every
\* document has one, no two documents share one, a successful create adds
\* one document under a fresh generated id and leaves that id in the User
\* and the response, and no other operation adds or changes an identifier.
C3_IdentifierAssignedOnce ==
    /\ \A d \in store : d["_id"] # Nil /\ \A e \in store : d["_id"] = e["_id"] => d = e
    /\ IF ret.op = "create" /\ ret.err = NoErr
       THEN \E o \in Oids \ Live(before) :
                /\ Deref(ret.user).ID = Ptr(o)
                /\ Live(store) = Live(before) \cup {o}
                /\ before \subseteq store
                /\ resp.body.obj["id"] = Ptr(Hex(o))
       ELSE Live(store) \subseteq Live(before)
    /\ ret.op = "update" =>
        Live(store) = Live(before) /\ Cardinality(store) = Cardinality(before)

C3_Witness ==
    /\ req.method = "POST" /\ resp.status = StatusCreated
    /\ req.body.obj["id"] = Ptr(<<"0", "b">>)
    /\ Deref(ret.user).ID # Ptr(11)
    /\ Cardinality(store) = 2

\* C4: an update that matches changes exactly the fields present in the
\* partial User to the submitted values; the absent fields of the document
\* and every other document stay as they were.
C4_UpdateSetsOnlyPresent ==
    (req.method = "PUT" /\ ret.op = "update" /\ ret.err = NoErr /\ ret.user # Nil) =>
        \E d \in DocsOf(before, req.id) :
            store = (before \ {d}) \cup
                {[k \in BsonKeys |->
                    IF k \in PayloadKeys /\ Present(req.body.obj[k])
                    THEN req.body.obj[k] ELSE d[k]]}

C4_Witness ==
    /\ req.method = "PUT" /\ resp.status = StatusAccepted
    /\ req.body.obj["name"] = Ptr("b") /\ req.body.obj["description"] = Ptr(JsonNull)
    /\ \E d \in DocsOf(store, req.id) : d["name"] = Ptr("b") /\ d["description"] = Ptr("a")
    /\ \E d \in DocsOf(before, req.id) : d["name"] = Ptr("a")
    /\ Cardinality(store) = 2

DeleteAgain ==
    LET again == delete(store, req.id, "ok")
    IN  again.st = store /\ DeleteUserResponse(again).status = StatusOK

\* C6 as stated: DELETE answers 200 unless the store reports an operational
\* failure, and then 500; a delete that matches nothing answers 200 and
\* leaves the collection unchanged, so a repeated DELETE changes nothing.
C6_DeleteOnlyFailsOnStoreFailure ==
    req.method = "DELETE" =>
        /\ resp.status = IF StoreFailed THEN StatusInternalServerError ELSE StatusOK
        /\ resp.status = StatusOK => DeleteAgain

\* C6 amended: DELETE answers 200 unless the id is malformed or the store
\* reports an operational failure, and then 500; a delete that matches
\* nothing answers 200 and leaves the collection unchanged, so a repeated
\* DELETE changes nothing.
C6_DeleteIdempotent ==
    req.method = "DELETE" =>
        /\ resp.status = IF StoreFailed \/ ~WellFormed(req.id)
                         THEN StatusInternalServerError ELSE StatusOK
        /\ (WellFormed(req.id) /\ req.outcome = "ok" /\ DocsOf(before, req.id) = {}) =>
            resp.status = StatusOK /\ store = before
        /\ resp.status = StatusOK =>
            /\ store = before \ DocsOf(before, req.id)
            /\ resp.body = NoBody
            /\ DeleteAgain

C6_Witness ==
    /\ req.method = "DELETE" /\ resp.status = StatusOK
    /\ DocsOf(before, req.id) = {} /\ before # {} /\ store = before

\* C7: POST with a body that does not decode, or in which name, dob or
\* address is absent, answers 400 without calling create and leaves the
\* collection unchanged; a body with all three that the store accepts
\* answers 201 with the submitted fields plus a non-empty id and createdAt.
C7_CreateValidates ==
    req.method = "POST" =>
        IF ~Decodes(req.body) \/ \E k \in RequiredKeys : ~Present(req.body.obj[k])
        THEN resp.status = StatusBadRequest /\ ret.op = "" /\ store = before
        ELSE req.outcome = "ok" =>
                /\ resp.status = StatusCreated /\ resp.body.kind = "object"
                /\ \A k \in PayloadKeys : resp.body.obj[k] = Submitted(req.body, k)
                /\ resp.body.obj["id"] \notin {Nil, Ptr(<<>>)}
                /\ resp.body.obj["createdAt"] \notin {Nil, Ptr("")}

C7_Witness ==
    /\ req.method = "POST" /\ resp.status = StatusCreated
    /\ req.body.obj["name"] = Ptr("") /\ req.body.obj["description"] = Nil
    /\ resp.body.obj["description"] = Nil

\* C8: when the request's context is cancelled while the store operation
\* is in flight, the handler writes no response.
C8_NoResponseAfterCancel == (Handled /\ req.outcome = "canceled") => ~resp.written

\* What GET answers for a document: 200 and its fields.
Echoes(d) ==
    /\ resp.status = StatusOK /\ resp.body.kind = "object"
    /\ \A k \in PayloadKeys \cup {"createdAt"} : resp.body.obj[k] = d[k]
GetReflects ==
    IF DocsOf(store, req.id) # {}
    THEN \A d \in DocsOf(store, req.id) : Echoes(d)
    ELSE resp.status = StatusNoContent /\ resp.body = NoBody

\* C9 as stated: GET answers 200 with the stored name, dob, address,
\* description and createdAt when a document with the id exists, and 204
\* with an empty body when none does.
C9_GetAlwaysReflectsStore == req.method = "GET" => GetReflects

\* C9 amended: when the id is well-formed and the store lookup completes,
\* GET answers 200 with the stored name, dob, address, description and
\* createdAt when a document with the id exists, and 204 with an empty body
\* when none does.
C9_GetReflectsStore ==
    (req.method = "GET" /\ WellFormed(req.id) /\ req.outcome = "ok") => GetReflects

C9_Witness ==
    /\ req.method = "GET" /\ resp.status = StatusOK /\ req.id = <<"0", "A">>
    /\ resp.body.obj["name"] = Ptr("b") /\ resp.body.obj["description"] = Ptr("a")
    /\ resp.body.obj["createdAt"] \in Stamps
    /\ Cardinality(store) = 2

\* C10: PUT with a decodable body and a matched id answers 202 with exactly
\* the payload fields the body carries, each with its submitted value; the
\* service returns the partial User as submitted, so the response has no
\* field of the stored document that the caller did not send.
C10_UpdateEchoesPartial ==
    (req.method = "PUT" /\ Decodes(req.body) /\ WellFormed(req.id)
        /\ req.outcome = "ok" /\ DocsOf(before, req.id) # {}) =>
        /\ resp.status = StatusAccepted /\ resp.body.kind = "object"
        /\ \A k \in JsonKeys :
            resp.body.obj[k] = IF k \in PayloadKeys THEN Submitted(req.body, k) ELSE Nil
        /\ ret.user = Ptr(req.user)

C10_Witness ==
    /\ req.method = "PUT" /\ resp.status = StatusAccepted
    /\ resp.body.obj["name"] = Ptr("b") /\ resp.body.obj["description"] = Nil
    /\ \E d \in DocsOf(store, req.id) : d["description"] = Ptr("a") /\ d["createdAt"] # Nil

====
